---------------------------- MODULE Spec2Model ----------------------------
(***************************************************************************)
(* State-machine model of the polymarket alert system:                     *)
(*   - the trader loop (run, src/unnamed/part_001) with the engine         *)
(*     (findOpportunity, buildPosition, shouldExit; src/src/scan.js        *)
(*     lines 306-495) and the persistence layer (src/src/state.js);        *)
(*   - the notifier (main of src/src/report-closed.js);                    *)
(*   - the single-shot scanner (main of src/src/scan.js lines 1-304);      *)
(*   - marketFill, buildPosition and the ranking of findOpportunity and    *)
(*     of the scanner's report, each applied on its own to inputs drawn    *)
(*     from bounded sets (SpecFill, SpecPosition, SpecRank).               *)
(*                                                                         *)
(* Numbers are exact rationals [n, d] (USD, shares); a JavaScript NaN is   *)
(* the record NaN and null/undefined is the record NULL.  Time is counted  *)
(* in units of 30 minutes, so that the default maxHoldMs of 60 minutes is  *)
(* 2 units and the poll interval (settable with --pollMs) is 1 unit.       *)
(*                                                                         *)
(* A function of the source with several steps is a chain of operators,    *)
(* each taking the values computed so far as parameters.                   *)
(***************************************************************************)
EXTENDS Integers, Sequences, FiniteSets, TLC

\* ------------------------------------------------------------------------
\* Bounds of the model
\* ------------------------------------------------------------------------

\* Last instant of the clock: Sleep and Tick are disabled once it is reached.
MaxTime == 4

\* Largest number of TRADE_CLOSED messages the notifier history records.
MaxNotes == 3

\* Largest number of levels on a side of a book handed to marketFill on its own.
MaxLevels == 3

\* Largest take-profit and stop-loss offset handed to buildPosition on its own,
\* in thousandths.
MaxOffset == 20

\* ------------------------------------------------------------------------
\* Exact arithmetic
\* ------------------------------------------------------------------------

NULL == [null |-> TRUE]
NaN == [nan |-> TRUE]

RECURSIVE Gcd(_, _)
Gcd(a, b) == IF b = 0 THEN a ELSE Gcd(b, a % b)

Abs(i) == IF i < 0 THEN -i ELSE i

Reduce(n, d, g) == IF d < 0 THEN [n |-> (-n) \div g, d |-> (-d) \div g]
                            ELSE [n |-> n \div g, d |-> d \div g]

\* The rational n/d in lowest terms with a positive denominator.
R(n, d) == Reduce(n, d, Gcd(Abs(n), Abs(d)))

Num(i) == [n |-> i, d |-> 1]
Cents(c) == R(c, 100)
Mills(m) == R(m, 1000)
Zero == Num(0)
One == Num(1)

\* Sum and difference over the least common denominator, g the greatest
\* common divisor of the denominators.
RAddOver(x, y, g) == R(x.n * (y.d \div g) + y.n * (x.d \div g), x.d * (y.d \div g))
RSubOver(x, y, g) == R(x.n * (y.d \div g) - y.n * (x.d \div g), x.d * (y.d \div g))
RAdd(x, y) == RAddOver(x, y, Gcd(x.d, y.d))
RSub(x, y) == RSubOver(x, y, Gcd(x.d, y.d))
RMul(x, y) == R(x.n * y.n, x.d * y.d)
RDiv(x, y) == R(x.n * y.d, x.d * y.n)
RLe(x, y) == x.n * y.d <= y.n * x.d
RLt(x, y) == x.n * y.d < y.n * x.d
RGe(x, y) == y.n * x.d <= x.n * y.d
RGt(x, y) == y.n * x.d < x.n * y.d
RMin(x, y) == IF x.n * y.d <= y.n * x.d THEN x ELSE y
RMax(x, y) == IF x.n * y.d <= y.n * x.d THEN y ELSE x
RAbs(x) == [n |-> Abs(x.n), d |-> x.d]

\* x <= 1/k for a rational x and a positive integer k.
AtMostOneIn(x, k) == x.n <= x.d \div k

\* Number.isFinite on a value that is a rational, NaN or NULL.
IsFinite(x) == x # NaN /\ x # NULL

\* A JavaScript falsy number: null, NaN or 0.
Falsy(x) == x = NULL \/ x = NaN \/ x = Zero

Min(a, b) == IF a <= b THEN a ELSE b

Take(seq, k) == SubSeq(seq, 1, Min(Len(seq), k))

\* ------------------------------------------------------------------------
\* Order books (utils.js)
\* ------------------------------------------------------------------------

Lvl(p, s) == [price |-> p, size |-> s]

ERR == [err |-> TRUE]

\* One step of a loop of bestBidAsk on the price p of a level.
Better(p, best, side) ==
    IF ~IsFinite(p) THEN best
    ELSE IF best = NULL THEN p
    ELSE IF side = "bid" THEN RMax(p, best) ELSE RMin(p, best)

RECURSIVE BestOf(_, _, _)
BestOf(levels, best, side) ==
    IF levels = <<>> THEN best
    ELSE BestOf(Tail(levels), Better(Head(levels).price, best, side), side)

\* bestBidAsk: the largest finite bid price and the smallest finite ask
\* price, NULL when a side has no level with a finite price.
bestBidAsk(book) ==
    [bestBid |-> BestOf(book.bids, NULL, "bid"),
     bestAsk |-> BestOf(book.asks, NULL, "ask")]

\* The filter of sortedLevels: finite, strictly positive price and size.
ValidLevel(l) ==
    /\ IsFinite(l.price) /\ IsFinite(l.size)
    /\ RGt(l.price, Zero) /\ RGt(l.size, Zero)

\* The comparator of sortedLevels: level l goes before level h.
Before(l, h, side) ==
    IF side = "buy" THEN RLt(l.price, h.price) ELSE RGt(l.price, h.price)

\* Array.prototype.sort with that comparator: a stable insertion of each
\* level after the levels it does not go before.
RECURSIVE InsertLevel(_, _, _)
InsertLevel(l, sorted, side) ==
    IF sorted = <<>> THEN <<l>>
    ELSE IF Before(l, Head(sorted), side) THEN <<l>> \o sorted
    ELSE <<Head(sorted)>> \o InsertLevel(l, Tail(sorted), side)

RECURSIVE SortLevels(_, _, _)
SortLevels(levels, acc, side) ==
    IF levels = <<>> THEN acc
    ELSE SortLevels(Tail(levels), InsertLevel(Head(levels), acc, side), side)

RawLevels(book, side) == IF side = "buy" THEN book.asks ELSE book.bids

\* The valid levels in the order of the source.
sortedLevelsAsListed(book, side) == SelectSeq(RawLevels(book, side), ValidLevel)

sortedLevels(book, side) == SortLevels(SelectSeq(RawLevels(book, side), ValidLevel), <<>>, side)

\* A loop body that counts a share for every dollar taken.
TakeUsdAtPar(lvl, acc, takeUsd) ==
    [remainingUsd |-> RSub(acc.remainingUsd, takeUsd),
     shares |-> RAdd(acc.shares, takeUsd),
     cost |-> RAdd(acc.cost, takeUsd)]

\* The body of the loop of marketFill on one level: takeUsd is consumed.
TakeUsd(lvl, acc, takeUsd) ==
    [remainingUsd |-> RSub(acc.remainingUsd, takeUsd),
     shares |-> RAdd(acc.shares, RDiv(takeUsd, lvl.price)),
     cost |-> RAdd(acc.cost, takeUsd)]

TakeLevel(lvl, acc) == TakeUsd(lvl, acc, RMin(acc.remainingUsd, RMul(lvl.price, lvl.size)))

\* 1 / 1e-9: the loop of marketFill stops once remainingUsd <= 1e-9.
BreakEpsInv == 1000000000

\* 1 / 1e-6: marketFill reports insufficient depth if remainingUsd > 1e-6.
DepthEpsInv == 1000000

\* The loop of marketFill over the sorted levels; acc holds remainingUsd,
\* shares and cost.
RECURSIVE FillWalk(_, _)
RECURSIVE FillNext(_, _)
FillNext(rest, acc) ==
    IF AtMostOneIn(acc.remainingUsd, BreakEpsInv) THEN acc ELSE FillWalk(rest, acc)

FillWalk(levels, acc) ==
    IF levels = <<>> THEN acc
    ELSE FillNext(Tail(levels), TakeLevel(Head(levels), acc))

\* The same loop, listing what each iteration takes from its level.
RECURSIVE FillTrace(_, _)
TraceNext(lvl, rest, before, after) ==
    << [price |-> lvl.price, size |-> lvl.size,
        takeUsd |-> RSub(after.cost, before.cost)] >>
    \o (IF AtMostOneIn(after.remainingUsd, BreakEpsInv) THEN <<>> ELSE FillTrace(rest, after))

FillTrace(levels, acc) ==
    IF levels = <<>> THEN <<>>
    ELSE TraceNext(Head(levels), Tail(levels), acc, TakeLevel(Head(levels), acc))

FillStart(notionalUsd) == [remainingUsd |-> notionalUsd, shares |-> Zero, cost |-> Zero]

\* A test of the depth with no tolerance.
InsufficientDepthStrict(w) ==
    RLe(w.cost, Zero) \/ RLe(w.shares, Zero) \/ RGt(w.remainingUsd, Zero)

InsufficientDepth(w) ==
    RLe(w.cost, Zero) \/ RLe(w.shares, Zero) \/ ~AtMostOneIn(w.remainingUsd, DepthEpsInv)

FillResult(w) ==
    IF InsufficientDepth(w) THEN NULL
    ELSE [avgPrice |-> RDiv(w.cost, w.shares), shares |-> w.shares, notional |-> w.cost]

marketFill(book, side, notionalUsd) ==
    FillResult(FillWalk(sortedLevels(book, side), FillStart(notionalUsd)))

\* ------------------------------------------------------------------------
\* Engine (scan.js lines 306-495)
\* ------------------------------------------------------------------------

\* defaultConfig, with the clock in units of 30 minutes (pollMs set by
\* --pollMs to one unit, maxHoldMs the default 60 minutes).
defaultConfig ==
    [notional |-> Num(200),
     scanLimit |-> 200,
     minVolume24h |-> 50000,
     minLiquidity |-> 10000,
     maxSpread |-> Cents(2),
     minMove |-> Cents(2),
     tp |-> Cents(2),
     sl |-> Cents(2),
     maxHoldMs |-> 2,
     pollMs |-> 1]

\* Math.log10(1 + v) for the volumes and liquidities of the model, all 10^k - 1.
RECURSIVE LogTen(_)
LogTen(x) == IF x <= 1 THEN 0 ELSE 1 + LogTen(x \div 10)

Log10OnePlus(v) == Num(LogTen(1 + v))

\* candidates.slice(0, 40)
SliceLimit == 40

\* The eligibility filters of findOpportunity.
Eligible(m, cfg) ==
    /\ m.closed = FALSE
    /\ m.enableOrderBook
    /\ m.acceptingOrders # FALSE
    /\ m.volume24hr >= cfg.minVolume24h
    /\ m.liquidityNum >= cfg.minLiquidity
    /\ Len(m.outcomes) = 2

\* The catalog answer filtered and cut to its first 40 markets.
Candidates(markets, cfg) ==
    Take(SelectSeq(markets, LAMBDA m : Eligible(m, cfg)), SliceLimit)

AbsMove(tok) == RAbs(RSub(tok.mid, tok.prevMid))

\* pickTokenByMove: a stable sort by descending absolute move, first taken.
pickTokenByMove(tokens) ==
    IF tokens = <<>> THEN NULL
    ELSE IF Len(tokens) >= 2 /\ RGt(AbsMove(tokens[2]), AbsMove(tokens[1]))
         THEN tokens[2]
         ELSE tokens[1]

\* A token without a snapshot taken as coming from a mid of 0.
PrevMidZero(state, tokenId, mid) ==
    IF tokenId \in DOMAIN state.snapshots.byToken
    THEN state.snapshots.byToken[tokenId].mid
    ELSE Zero

\* state.snapshots.byToken?.[tokenId]?.mid ?? mid
PrevMid(state, tokenId, mid) ==
    IF tokenId \in DOMAIN state.snapshots.byToken
    THEN state.snapshots.byToken[tokenId].mid
    ELSE mid

\* The move filter left out.
MoveOkAlways(best, cfg) == TRUE

\* The spread filter left out.
SpreadOkAlways(best, cfg) == TRUE

\* The hard filters of findOpportunity on the token picked.
MoveOk(best, cfg) == ~RLt(AbsMove(best), cfg.minMove)

SpreadOk(best, cfg) == ~RGt(best.spread, cfg.maxSpread)

OpportunityScore(absMove, spread, m, cfg) ==
    RAdd(RAdd(RMul(RDiv(absMove, Cents(5)), Num(50)),
              RMul(RSub(One, RMin(One, RDiv(spread, cfg.maxSpread))), Num(20))),
         RMin(Num(20), RMul(Log10OnePlus(m.volume24hr), Num(3))))

\* What one iteration of the loop over the candidates adds: snapshot updates,
\* scored opportunities, and the tokens whose book it queried.
NoEval == [updates |-> <<>>, scored |-> <<>>, queried |-> <<>>]

\* A token of a market as the loop sees it: quotes q, its mid, the mid of
\* its last snapshot.
TokenAt(tokenId, book, q, mid, state) ==
    [tokenId |-> tokenId, mid |-> mid, prevMid |-> PrevMid(state, tokenId, mid),
     spread |-> RSub(q.bestAsk, q.bestBid), book |-> book,
     bid |-> q.bestBid, ask |-> q.bestAsk]

Token(tokenId, book, q, state) ==
    TokenAt(tokenId, book, q, RDiv(RAdd(q.bestBid, q.bestAsk), Num(2)), state)

SnapshotUpdate(tok) == [tokenId |-> tok.tokenId, mid |-> tok.mid, bid |-> tok.bid, ask |-> tok.ask]

\* scored.push(...) once the entry fill is known.
ScoreEntry(m, cfg, a, b, best, entry) ==
    IF entry = NULL THEN <<>>
    ELSE << [score |-> OpportunityScore(AbsMove(best), best.spread, m, cfg),
             market |-> m,
             chosen |-> [tokenId |-> best.tokenId,
                         mid |-> best.mid,
                         prevMid |-> best.prevMid,
                         move |-> RSub(best.mid, best.prevMid),
                         spread |-> best.spread,
                         bid |-> IF best.tokenId = a.tokenId THEN a.bid ELSE b.bid,
                         ask |-> IF best.tokenId = a.tokenId THEN a.ask ELSE b.ask,
                         entry |-> entry]] >>

\* The filters on the token picked, then the entry fill.
ScoreBest(m, cfg, a, b, best) ==
    IF best = NULL THEN <<>>
    ELSE IF ~MoveOk(best, cfg) THEN <<>>
    ELSE IF ~SpreadOk(best, cfg) THEN <<>>
    ELSE ScoreEntry(m, cfg, a, b, best, marketFill(best.book, "buy", cfg.notional))

\* Both tokens are two-sided: their snapshot updates are pushed, then the
\* market is filtered and scored.
EvalTokens(m, cfg, a, b) ==
    [updates |-> <<SnapshotUpdate(a), SnapshotUpdate(b)>>,
     queried |-> <<>>,
     scored |-> IF RGt(a.spread, cfg.maxSpread) /\ RGt(b.spread, cfg.maxSpread)
                THEN <<>>
                ELSE ScoreBest(m, cfg, a, b, pickTokenByMove(<<a, b>>))]

EvalQuotes(m, state, cfg, bookA, bookB, qA, qB) ==
    IF qA.bestBid = NULL \/ qA.bestAsk = NULL \/ qB.bestBid = NULL \/ qB.bestAsk = NULL
    THEN NoEval
    ELSE EvalTokens(m, cfg, Token(m.clobTokenIds[1], bookA, qA, state),
                            Token(m.clobTokenIds[2], bookB, qB, state))

\* Promise.all of the two book queries: one failure skips the market.
EvalBooks(m, state, cfg, bookA, bookB) ==
    IF bookA = ERR \/ bookB = ERR THEN NoEval
    ELSE EvalQuotes(m, state, cfg, bookA, bookB, bestBidAsk(bookA), bestBidAsk(bookB))

\* The two book queries of a market have been issued.
Queried(m, ev) == [ev EXCEPT !.queried = <<m.clobTokenIds[1], m.clobTokenIds[2]>>]

EvalMarket(m, state, cfg, fetch) ==
    IF Len(m.clobTokenIds) < 2 THEN NoEval
    ELSE Queried(m, EvalBooks(m, state, cfg, fetch[m.clobTokenIds[1]],
                              fetch[m.clobTokenIds[2]]))

Join(h, t) ==
    [updates |-> h.updates \o t.updates, scored |-> h.scored \o t.scored,
     queried |-> h.queried \o t.queried]

RECURSIVE EvalMarkets(_, _, _, _)
EvalMarkets(ms, state, cfg, fetch) ==
    IF ms = <<>> THEN NoEval
    ELSE Join(EvalMarket(Head(ms), state, cfg, fetch),
              EvalMarkets(Tail(ms), state, cfg, fetch))

\* The last of the opportunities with the largest score.
RECURSIVE TopScoredLast(_, _)
TopScoredLast(scored, top) ==
    IF scored = <<>> THEN top
    ELSE TopScoredLast(Tail(scored),
                       IF top = NULL THEN Head(scored)
                       ELSE IF RGe(Head(scored).score, top.score) THEN Head(scored)
                       ELSE top)

\* scored.sort((a, b) => b.score - a.score)[0]: the sort is stable, so the
\* first of the opportunities with the largest score.
RECURSIVE TopScored(_, _)
TopScored(scored, top) ==
    IF scored = <<>> THEN top
    ELSE TopScored(Tail(scored),
                   IF top = NULL THEN Head(scored)
                   ELSE IF RGt(Head(scored).score, top.score) THEN Head(scored)
                   ELSE top)

FindResult(ev) ==
    [best |-> TopScored(ev.scored, NULL), snapshotUpdates |-> ev.updates,
     queried |-> ev.queried]

\* findOpportunity on a catalog answer `markets` and the order books `fetch`
\* (token -> book or ERR) the provider serves during the cycle; `queried`
\* lists the tokens whose book it asked for.
findOpportunity(state, cfg, markets, fetch) ==
    FindResult(EvalMarkets(Candidates(markets, cfg), state, cfg, fetch))

\* An id without the time of opening.
PositionIdNoTime(t, op) == [t |-> 0, market |-> op.market.id, token |-> op.chosen.tokenId]

\* `t${now}-${op.market.id}-${op.chosen.tokenId}`
PositionId(t, op) == [t |-> t, market |-> op.market.id, token |-> op.chosen.tokenId]

\* Thresholds at the offsets, not held within [0.001, 0.999].
ExitsUnclamped(entryPrice, cfg) ==
    [takeProfitPrice |-> RAdd(entryPrice, cfg.tp),
     stopLossPrice |-> RSub(entryPrice, cfg.sl),
     maxHoldMs |-> cfg.maxHoldMs]

\* The exit thresholds of buildPosition.
Exits(entryPrice, cfg) ==
    [takeProfitPrice |-> RMin(Mills(999), RAdd(entryPrice, cfg.tp)),
     stopLossPrice |-> RMax(Mills(1), RSub(entryPrice, cfg.sl)),
     maxHoldMs |-> cfg.maxHoldMs]

buildPosition(op, cfg, t) ==
    [id |-> PositionId(t, op),
     openedAt |-> t,
     marketId |-> op.market.id,
     tokenId |-> op.chosen.tokenId,
     notional |-> cfg.notional,
     entry |-> [avgPrice |-> op.chosen.entry.avgPrice,
                shares |-> op.chosen.entry.shares,
                bookBid |-> op.chosen.bid,
                bookAsk |-> op.chosen.ask,
                spread |-> op.chosen.spread],
     exits |-> Exits(op.chosen.entry.avgPrice, cfg),
     status |-> "OPEN",
     lastMark |-> [t |-> t, mid |-> op.chosen.mid, bid |-> op.chosen.bid,
                   ask |-> op.chosen.ask]]

\* The take-profit rule evaluated before the time stop.
shouldExitProfitFirst(position, mark, t) ==
    IF RGe(mark.bid, position.exits.takeProfitPrice)
    THEN [reason |-> "TAKE_PROFIT", exitAt |-> t]
    ELSE IF t - position.openedAt >= position.exits.maxHoldMs
    THEN [reason |-> "TIME_STOP", exitAt |-> t]
    ELSE IF RLe(mark.bid, position.exits.stopLossPrice)
    THEN [reason |-> "STOP_LOSS", exitAt |-> t]
    ELSE NULL

\* The stop-loss rule with a strict comparison.
shouldExitStrictStop(position, mark, t) ==
    IF t - position.openedAt >= position.exits.maxHoldMs
    THEN [reason |-> "TIME_STOP", exitAt |-> t]
    ELSE IF RGe(mark.bid, position.exits.takeProfitPrice)
    THEN [reason |-> "TAKE_PROFIT", exitAt |-> t]
    ELSE IF RLt(mark.bid, position.exits.stopLossPrice)
    THEN [reason |-> "STOP_LOSS", exitAt |-> t]
    ELSE NULL

\* shouldExit at time t: the reason to exit, or NULL.
shouldExit(position, mark, t) ==
    IF t - position.openedAt >= position.exits.maxHoldMs
    THEN [reason |-> "TIME_STOP", exitAt |-> t]
    ELSE IF RGe(mark.bid, position.exits.takeProfitPrice)
    THEN [reason |-> "TAKE_PROFIT", exitAt |-> t]
    ELSE IF RLe(mark.bid, position.exits.stopLossPrice)
    THEN [reason |-> "STOP_LOSS", exitAt |-> t]
    ELSE NULL

\* ------------------------------------------------------------------------
\* The remote catalog and order-book provider (inputs)
\* ------------------------------------------------------------------------

\* A market record of the catalog; endDate holds Date.parse(m.endDate),
\* [ms |-> time] or NaN.
Market(id, tokA, tokB, vol) ==
    [id |-> id, closed |-> FALSE, enableOrderBook |-> TRUE, acceptingOrders |-> TRUE,
     volume24hr |-> vol, liquidityNum |-> 99999, outcomes |-> <<"Yes", "No">>,
     outcomePrices |-> <<Cents(40), Cents(60)>>, clobTokenIds |-> <<tokA, tokB>>,
     endDate |-> [ms |-> MaxTime + 10]]

M1 == Market("m1", "a1", "b1", 99999)
M2 == Market("m2", "a2", "b2", 999999)

\* A market that lists one token id only.
M3 == [Market("m3", "a3", "b3", 99999) EXCEPT !.clobTokenIds = <<"a3">>]

\* A market with the volume of M1.
M4 == Market("m4", "a4", "b4", 99999)

\* Answers of the catalog query to the trader: market lists in the order
\* served, with markets among them that are closed, have too little volume,
\* have ended, or list one token only.
Catalogs ==
    { <<M1>>,
      <<[M2 EXCEPT !.volume24hr = 9999], [M1 EXCEPT !.endDate = [ms |-> 0]]>>,
      <<[M1 EXCEPT !.closed = TRUE], M3>> }

\* The catalog query answers with a list or fails (network error, HTTP status).
CatalogAnswers == {[ok |-> FALSE]} \cup {[ok |-> TRUE, markets |-> c] : c \in Catalogs}

bkLo == [bids |-> <<Lvl(Cents(39), Num(1000))>>, asks |-> <<Lvl(Cents(40), Num(1000))>>]
bkHi == [bids |-> <<Lvl(Cents(43), Num(1000))>>, asks |-> <<Lvl(Cents(44), Num(1000))>>]
bkWide == [bids |-> <<Lvl(Cents(36), Num(1000))>>, asks |-> <<Lvl(Cents(56), Num(1000))>>]
bkThin == [bids |-> <<Lvl(Cents(47), Num(50))>>, asks |-> <<Lvl(Cents(48), Num(50))>>]
bkTwoLvl ==
    [bids |-> <<Lvl(Cents(41), Num(300)), Lvl(Cents(42), Num(300))>>,
     asks |-> <<Lvl(Cents(45), Num(400)), Lvl(NaN, Num(10)), Lvl(Cents(43), Num(250))>>]
bkNoBid == [bids |-> <<>>, asks |-> <<Lvl(Cents(40), Num(1000))>>]

\* What the provider answers to the book query of a monitoring tick.
MonitorAnswers == {bkLo, bkHi, bkWide, bkThin, bkTwoLvl, bkNoBid, ERR}

\* What it answers to the two book queries of a candidate market.
PairAnswers(marketId) ==
    IF marketId = "m1"
    THEN { <<bkLo, bkLo>>, <<bkHi, bkLo>>, <<bkLo, bkHi>>, <<bkWide, bkHi>>,
           <<bkThin, bkLo>>, <<bkTwoLvl, bkLo>>, <<bkWide, bkWide>>,
           <<bkLo, bkNoBid>>, <<bkHi, ERR>> }
    ELSE { <<bkLo, bkLo>>, <<bkHi, bkLo>>, <<bkWide, bkWide>> }

\* The answers the provider has for the tokens of the candidate markets: one
\* per token a candidate lists.
RECURSIVE FetchAnswers(_)
FetchAnswers(candidates) ==
    IF candidates = <<>> THEN { <<>> }
    ELSE IF Len(Head(candidates).clobTokenIds) < 2
    THEN { (Head(candidates).clobTokenIds[1] :> bkLo) @@ rest :
               rest \in FetchAnswers(Tail(candidates)) }
    ELSE { (Head(candidates).clobTokenIds[1] :> pr[1])
             @@ (Head(candidates).clobTokenIds[2] :> pr[2]) @@ rest :
               pr \in PairAnswers(Head(candidates).id),
               rest \in FetchAnswers(Tail(candidates)) }

\* ------------------------------------------------------------------------
\* State
\* ------------------------------------------------------------------------

VARIABLES
    now,            \* Date.now()
    pc,             \* where run() stands: read, scan, open, monitor, summary, clear, sleep, exited
    state,          \* run's local `state`
    res,            \* run's local `res.best`
    closing,        \* run's local `closed`
    cyc,            \* what the current loop cycle has done and been served
    stateFile,      \* data/state.json (NULL: no such file)
    lastClosedFile, \* data/last_closed.json (NULL: no such file)
    closedFiles,    \* data/closed/<id>.json
    tradeLogs,      \* data/trades/<id>.jsonl
    npc,            \* where a run of the notifier stands: idle, state, closed, write
    nptr,           \* the notifier's local `ptr`
    nstate,         \* the notifier's local `state`
    notes,          \* the TRADE_CLOSED messages printed so far (their trade ids)
    snapshotFile,   \* data/snapshots.json of the single-shot scanner (NULL: no such file)
    report,         \* the last run of the single-shot scanner: what it was served and printed
    calc            \* a library function applied on its own: its arguments and its result

traderVars == <<now, pc, state, res, closing, cyc, lastClosedFile, closedFiles, tradeLogs>>

notifierVars == <<npc, nptr, nstate, notes>>

scannerVars == <<snapshotFile, report>>

vars == <<now, pc, state, res, closing, cyc, stateFile, lastClosedFile, closedFiles,
          tradeLogs, npc, nptr, nstate, notes, snapshotFile, report, calc>>

cfg == defaultConfig

\* A cycle that has done nothing yet: `markets` is the catalog answer it got,
\* `books` what the provider had for the tokens, `queried` the tokens whose
\* book it asked for.
NoCycle ==
    [scan |-> FALSE, monitor |-> FALSE, opened |-> FALSE, books |-> <<>>,
     markets |-> <<>>, queried |-> <<>>]

\* ------------------------------------------------------------------------
\* Persistence (state.js)
\* ------------------------------------------------------------------------

readState(file, t) ==
    IF file # NULL THEN file
    ELSE [createdAt |-> t, lastScanAt |-> NULL, openPosition |-> NULL,
          lastClosedId |-> NULL, snapshots |-> [byToken |-> <<>>, t |-> 0]]

\* A log written anew at every event.
writeTradeLog(logs, tradeId, obj) == (tradeId :> <<obj>>) @@ logs

appendTradeLog(logs, tradeId, obj) ==
    IF tradeId \in DOMAIN logs
    THEN [logs EXCEPT ![tradeId] = Append(@, obj)]
    ELSE (tradeId :> <<obj>>) @@ logs

\* ------------------------------------------------------------------------
\* The trader loop (run)
\* ------------------------------------------------------------------------

\* state.snapshots.byToken[tokenId] = { mid, bid, ask, t: Date.now() }
SetSnapshot(st, tokenId, mid, bid, ask, t) ==
    [st EXCEPT !.snapshots.byToken =
        (tokenId :> [mid |-> mid, bid |-> bid, ask |-> ask, t |-> t]) @@ @]

\* A mark that also counts as a scan.
markAndScan(st, tokenId, mid, bid, ask, t) ==
    [SetSnapshot(st, tokenId, mid, bid, ask, t) EXCEPT !.snapshots.t = t, !.lastScanAt = t]

\* A mark that leaves the entry of the token as it was.
markOnly(st, tokenId, mid, bid, ask, t) == [st EXCEPT !.snapshots.t = t]

markAndSnapshot(st, tokenId, mid, bid, ask, t) ==
    [SetSnapshot(st, tokenId, mid, bid, ask, t) EXCEPT !.snapshots.t = t]

\* for (const u of res.snapshotUpdates) state.snapshots.byToken[u.tokenId] = ...
RECURSIVE ApplyUpdates(_, _, _)
ApplyUpdates(st, updates, t) ==
    IF updates = <<>> THEN st
    ELSE ApplyUpdates(SetSnapshot(st, Head(updates).tokenId, Head(updates).mid,
                                  Head(updates).bid, Head(updates).ask, t),
                      Tail(updates), t)

\* state.snapshots.t = Date.now(); state.lastScanAt = Date.now()
Scanned(st, t) == [st EXCEPT !.snapshots.t = t, !.lastScanAt = t]

\* The state run writes after a scan that answered r.
Rescanned(st, r, t) == Scanned(ApplyUpdates(st, r.snapshotUpdates, t), t)

\* A loop that scans in every cycle.
CanScanAlways(st) == TRUE

\* if (!state.openPosition): the cycle scans, else it monitors.
CanScan(st) == st.openPosition = NULL

\* A loop that falls through to the monitoring branch after opening.
NextAfterOpenMonitor == "monitor"

\* After the position is stored the cycle sleeps: `continue`.
NextAfterOpen == "sleep"

ReadState ==
    /\ pc = "read"
    /\ state' = readState(stateFile, now)
    /\ pc' = IF CanScan(state') THEN "scan" ELSE "monitor"
    /\ cyc' = NoCycle
    /\ UNCHANGED <<now, res, closing, stateFile, lastClosedFile, closedFiles, tradeLogs,
                   notifierVars, scannerVars, calc>>

\* findOpportunity throws on a failed catalog query; run().catch logs the
\* error and exits with status 1.
ScanThrows ==
    /\ pc' = "exited"
    /\ cyc' = [cyc EXCEPT !.scan = TRUE]
    /\ UNCHANGED <<state, res, stateFile>>

\* The snapshots are written, then the cycle sleeps or opens a position.
ScanWrites(best, st, fetch, markets, queried) ==
    /\ state' = st
    /\ stateFile' = st
    /\ res' = best
    /\ pc' = IF best = NULL THEN "sleep" ELSE "open"
    /\ cyc' = [cyc EXCEPT !.scan = TRUE, !.books = fetch, !.markets = markets,
                          !.queried = queried]

ScanFound(r, fetch, markets) ==
    ScanWrites(r.best, Scanned(ApplyUpdates(state, r.snapshotUpdates, now), now), fetch,
               markets, r.queried)

Scan ==
    /\ pc = "scan"
    /\ \E ans \in CatalogAnswers :
         IF ~ans.ok THEN ScanThrows
         ELSE \E fetch \in FetchAnswers(Candidates(ans.markets, cfg)) :
                ScanFound(findOpportunity(state, cfg, ans.markets, fetch), fetch,
                          ans.markets)
    /\ UNCHANGED <<now, closing, lastClosedFile, closedFiles, tradeLogs,
                   notifierVars, scannerVars, calc>>

OpenStore(position, st) ==
    /\ tradeLogs' = appendTradeLog(tradeLogs, position.id, [t |-> now, type |-> "OPEN"])
    /\ state' = st
    /\ stateFile' = st

OpenPosition(position) ==
    OpenStore(position,
              markAndSnapshot([state EXCEPT !.openPosition = position], position.tokenId,
                              position.lastMark.mid, position.lastMark.bid,
                              position.lastMark.ask, now))

Open ==
    /\ pc = "open"
    /\ OpenPosition(buildPosition(res, cfg, now))
    /\ res' = NULL
    /\ pc' = NextAfterOpen
    /\ cyc' = [cyc EXCEPT !.opened = TRUE]
    /\ UNCHANGED <<now, closing, lastClosedFile, closedFiles, notifierVars, scannerVars, calc>>

\* An exit priced at the best bid whatever the fill.
ExitAvgBid(exitFill, bestBid) == bestBid

\* exitFill?.avgPrice ?? bestBid
ExitAvg(exitFill, bestBid) == IF exitFill # NULL THEN exitFill.avgPrice ELSE bestBid

\* The closed-trade summary built on exit.
ClosedWith(p, exitAvg, reason, t) ==
    [id |-> p.id, openedAt |-> p.openedAt, closedAt |-> t,
     durationMs |-> t - p.openedAt, marketId |-> p.marketId, tokenId |-> p.tokenId,
     notional |-> p.notional, entryAvg |-> p.entry.avgPrice, exitAvg |-> exitAvg,
     shares |-> p.entry.shares,
     pnl |-> RMul(RSub(exitAvg, p.entry.avgPrice), p.entry.shares),
     exitReason |-> reason, exits |-> p.exits, lastMark |-> p.lastMark]

ClosedSummary(p, book, bestBid, reason, t) ==
    ClosedWith(p,
               ExitAvg(marketFill(book, "sell",
                                  RMin(p.notional, RMul(p.entry.avgPrice, p.entry.shares))),
                       bestBid),
               reason, t)

\* The book query failed or the book is one-sided: `continue`.
MonitorSkip ==
    /\ pc' = "sleep"
    /\ UNCHANGED <<state, closing, stateFile, tradeLogs>>

\* No exit: the state is written.  Exit: the CLOSE event is logged and the
\* summary built.
MonitorExit(p, book, q, st, logged, exitDecision) ==
    IF exitDecision = NULL
    THEN /\ state' = st
         /\ stateFile' = st
         /\ tradeLogs' = logged
         /\ pc' = "sleep"
         /\ UNCHANGED closing
    ELSE /\ state' = st
         /\ closing' = ClosedSummary(p, book, q.bestBid, exitDecision.reason, now)
         /\ tradeLogs' = appendTradeLog(logged, p.id, [t |-> now, type |-> "CLOSE"])
         /\ pc' = "summary"
         /\ UNCHANGED stateFile

\* p.lastMark is set, the MARK event logged, the snapshot taken and the exit
\* rules evaluated.
MonitorMark(p, book, q, mark) ==
    MonitorExit(p, book, q,
                markAndSnapshot([state EXCEPT !.openPosition = p], p.tokenId,
                                mark.mid, mark.bid, mark.ask, now),
                appendTradeLog(tradeLogs, p.id, [t |-> now, type |-> "MARK"]),
                shouldExit(p, mark, now))

MarkOf(q, t) ==
    [t |-> t, mid |-> RDiv(RAdd(q.bestBid, q.bestAsk), Num(2)),
     bid |-> q.bestBid, ask |-> q.bestAsk]

MonitorQuotes(p0, book, q) ==
    IF q.bestBid = NULL \/ q.bestAsk = NULL THEN MonitorSkip
    ELSE MonitorMark([p0 EXCEPT !.lastMark = MarkOf(q, now)], book, q, MarkOf(q, now))

MonitorBook(p0, book) ==
    IF book = ERR THEN MonitorSkip
    ELSE MonitorQuotes(p0, book, bestBidAsk(book))

Monitor ==
    /\ pc = "monitor"
    /\ \E book \in MonitorAnswers :
         /\ cyc' = [cyc EXCEPT !.monitor = TRUE,
                               !.books = (state.openPosition.tokenId :> book),
                               !.queried = <<state.openPosition.tokenId>>]
         /\ MonitorBook(state.openPosition, book)
    /\ UNCHANGED <<now, res, lastClosedFile, closedFiles, notifierVars, scannerVars, calc>>

\* writeClosedSummary: the summary document, then the pointer for the notifier.
WriteClosedSummary ==
    /\ pc = "summary"
    /\ closedFiles' = (closing.id :> closing) @@ closedFiles
    /\ lastClosedFile' = [tradeId |-> closing.id, t |-> now]
    /\ pc' = "clear"
    /\ UNCHANGED <<now, state, res, closing, cyc, stateFile, tradeLogs,
                   notifierVars, scannerVars, calc>>

\* state.lastClosedId = p.id; state.openPosition = null; writeState(state)
Cleared(st, id) == [st EXCEPT !.lastClosedId = id, !.openPosition = NULL]

ClearPosition ==
    /\ pc = "clear"
    /\ state' = Cleared(state, closing.id)
    /\ stateFile' = state'
    /\ closing' = NULL
    /\ pc' = "sleep"
    /\ UNCHANGED <<now, res, cyc, lastClosedFile, closedFiles, tradeLogs,
                   notifierVars, scannerVars, calc>>

\* sleep(cfg.pollMs), after which the locals of the cycle are gone.
Sleep ==
    /\ pc = "sleep"
    /\ now < MaxTime
    /\ now' = now + cfg.pollMs
    /\ pc' = "read"
    /\ state' = NULL
    /\ UNCHANGED <<res, closing, cyc, stateFile, lastClosedFile, closedFiles, tradeLogs,
                   notifierVars, scannerVars, calc>>

\* No library function is being applied on its own.
NoCalc == [fn |-> "none"]

\* The programs before their first step.
Start ==
    /\ now = 0
    /\ pc = "read"
    /\ state = NULL
    /\ res = NULL
    /\ closing = NULL
    /\ cyc = NoCycle
    /\ stateFile = NULL
    /\ lastClosedFile = NULL
    /\ closedFiles = <<>>
    /\ tradeLogs = <<>>
    /\ npc = "idle"
    /\ nptr = NULL
    /\ nstate = NULL
    /\ notes = <<>>
    /\ snapshotFile = NULL
    /\ report = NULL

Init ==
    /\ Start
    /\ calc = NoCalc

Next ==
    \/ ReadState
    \/ Scan
    \/ Open
    \/ Monitor
    \/ WriteClosedSummary
    \/ ClearPosition
    \/ Sleep

Spec == Init /\ [][Next]_vars

\* ------------------------------------------------------------------------
\* The notifier (main of report-closed.js), run from outside at any time
\* ------------------------------------------------------------------------

\* state?.notifierLastSeen ?? null
NotifierLastSeen(st) ==
    IF st # NULL /\ "notifierLastSeen" \in DOMAIN st THEN st.notifierLastSeen ELSE NULL

\* A run starts: readJson('data/last_closed.json'); without a pointer it ends.
NotifierReadPointer ==
    /\ npc = "idle"
    /\ Len(notes) < MaxNotes
    /\ nptr' = lastClosedFile
    /\ npc' = IF lastClosedFile = NULL THEN "idle" ELSE "state"
    /\ UNCHANGED <<traderVars, stateFile, nstate, notes, scannerVars, calc>>

\* readJson('data/state.json'); the run ends when the pointer was seen.
NotifierReadState ==
    /\ npc = "state"
    /\ IF NotifierLastSeen(stateFile) = nptr.tradeId
       THEN npc' = "idle" /\ nptr' = NULL /\ nstate' = NULL
       ELSE npc' = "closed" /\ nstate' = stateFile /\ UNCHANGED nptr
    /\ UNCHANGED <<traderVars, stateFile, notes, scannerVars, calc>>

\* readJson(`data/closed/${ptr.tradeId}.json`); without the summary the run ends.
NotifierReadClosed ==
    /\ npc = "closed"
    /\ IF nptr.tradeId \in DOMAIN closedFiles
       THEN npc' = "write" /\ UNCHANGED <<nptr, nstate>>
       ELSE npc' = "idle" /\ nptr' = NULL /\ nstate' = NULL
    /\ UNCHANGED <<traderVars, stateFile, notes, scannerVars, calc>>

\* state.notifierLastSeen = ptr.tradeId; the state is written back and the
\* message printed.
NotifierWrite ==
    /\ npc = "write"
    /\ stateFile' = ("notifierLastSeen" :> nptr.tradeId) @@ nstate
    /\ notes' = Append(notes, nptr.tradeId)
    /\ npc' = "idle"
    /\ nptr' = NULL
    /\ nstate' = NULL
    /\ UNCHANGED <<traderVars, scannerVars, calc>>

NotifierNext ==
    \/ NotifierReadPointer
    \/ NotifierReadState
    \/ NotifierReadClosed
    \/ NotifierWrite

\* The trader loop with runs of the notifier interleaved at file operations.
SystemNext ==
    \/ ReadState
    \/ Scan
    \/ Open
    \/ Monitor
    \/ WriteClosedSummary
    \/ ClearPosition
    \/ Sleep
    \/ NotifierReadPointer
    \/ NotifierReadState
    \/ NotifierReadClosed
    \/ NotifierWrite

SpecSystem == Init /\ [][SystemNext]_vars

\* ------------------------------------------------------------------------
\* The single-shot scanner (main of scan.js, lines 1-304)
\* ------------------------------------------------------------------------

\* parseArgs: the defaults, with --maxAlerts 1; maxEndHours (two years) in
\* units of 30 minutes.
scanArgs ==
    [maxAlerts |-> 1,
     limit |-> 200,
     minVolume24h |-> 3000,
     minLiquidity |-> 1500,
     notional |-> Num(100),
     maxEndHours |-> 35040,
     maxSpread |-> Cents(12)]

\* candidates.slice(0, 30)
ScanSliceLimit == 30

SlipAt(w, avg, ref) ==
    [avgPrice |-> avg, refPrice |-> ref, slippage |-> RAbs(RSub(avg, ref)),
     shares |-> w.shares]

\* if (!ref) return null
SlipRef(w, ref) == IF Falsy(ref) THEN NULL ELSE SlipAt(w, RDiv(w.cost, w.shares), ref)

RefPrice(q, side) == IF side = "buy" THEN q.bestAsk ELSE q.bestBid

SlipResult(w, book, side) ==
    IF InsufficientDepth(w) THEN NULL
    ELSE SlipRef(w, RefPrice(bestBidAsk(book), side))

slippageForNotional(book, side, notionalUsd) ==
    SlipResult(FillWalk(sortedLevels(book, side), FillStart(notionalUsd)), book, side)

clamp01(x) == RMax(Zero, RMin(One, x))

\* Math.round of a rational that is not negative.
Round(x) == (2 * x.n + x.d) \div (2 * x.d)

\* slipBuy ?? 0
OrZero(x) == IF x = NULL THEN Zero ELSE x

opportunityScore(spread, vol24h, liq, absMove1h, slipBuy, slipSell) ==
    Round(RMax(Zero, RMin(Num(100),
        RSub(RSub(RAdd(RAdd(RMul(Num(45), clamp01(RDiv(Log10OnePlus(vol24h), Num(5)))),
                            RMul(Num(25), clamp01(RDiv(Log10OnePlus(liq), Num(5))))),
                       RMul(Num(30), clamp01(RDiv(absMove1h, Cents(8))))),
                  RMul(Num(25), clamp01(RDiv(spread, Cents(2))))),
             RMul(Num(25), clamp01(RDiv(RAdd(OrZero(slipBuy), OrZero(slipSell)),
                                        Cents(4))))))))

\* The filters of main on the catalog answer.
ScanEligible(m, args, t) ==
    /\ m.closed = FALSE
    /\ m.enableOrderBook
    /\ m.volume24hr >= args.minVolume24h
    /\ m.liquidityNum >= args.minLiquidity
    /\ m.endDate # NaN /\ m.endDate.ms > t /\ m.endDate.ms < t + args.maxEndHours

ScanCandidates(markets, args, t) ==
    Take(SelectSeq(markets, LAMBDA m : ScanEligible(m, args, t)), ScanSliceLimit)

TokenRow(idx, token, refPrice, book, q, mid) ==
    [idx |-> idx, token |-> token, refPrice |-> refPrice, book |-> book,
     bestBid |-> q.bestBid, bestAsk |-> q.bestAsk, mid |-> mid,
     spread |-> RSub(q.bestAsk, q.bestBid), err |-> RAbs(RSub(mid, refPrice))]

\* if (!bestBid || !bestAsk) continue
TokenQuotes(idx, token, refPrice, book, q) ==
    IF Falsy(q.bestBid) \/ Falsy(q.bestAsk) THEN <<>>
    ELSE << TokenRow(idx, token, refPrice, book, q,
                     RDiv(RAdd(q.bestBid, q.bestAsk), Num(2))) >>

\* One iteration of the loop over the tokens of a market: the token
\* candidate pushed, if any.
TokenCandidate(m, idx, fetch) ==
    IF ~IsFinite(m.outcomePrices[idx]) THEN <<>>
    ELSE IF fetch[m.clobTokenIds[idx]] = ERR THEN <<>>
    ELSE TokenQuotes(idx, m.clobTokenIds[idx], m.outcomePrices[idx],
                     fetch[m.clobTokenIds[idx]], bestBidAsk(fetch[m.clobTokenIds[idx]]))

RECURSIVE TokenCandidates(_, _, _)
TokenCandidates(m, idx, fetch) ==
    IF idx > Min(Len(m.clobTokenIds), Len(m.outcomePrices)) THEN <<>>
    ELSE TokenCandidate(m, idx, fetch) \o TokenCandidates(m, idx + 1, fetch)

\* tokenCandidates.sort((a, b) => a.err - b.err)[0]: the sort is stable, so
\* the first of the candidates with the smallest err.
RECURSIVE ClosestToRef(_, _)
ClosestToRef(cands, best) ==
    IF cands = <<>> THEN best
    ELSE IF best = NULL \/ RLt(Head(cands).err, best.err)
         THEN ClosestToRef(Tail(cands), Head(cands))
         ELSE ClosestToRef(Tail(cands), best)

\* prev.byToken?.[prevKey]?.mid ?? null
ScanPrevMid(prev, prevKey) ==
    IF prevKey \in DOMAIN prev.byToken THEN prev.byToken[prevKey].mid ELSE NULL

\* prevMid ? Math.abs(chosen.mid - prevMid) : 0
AbsMove1h(prevMid, mid) == IF Falsy(prevMid) THEN Zero ELSE RAbs(RSub(mid, prevMid))

\* slipObj?.slippage ?? null
Slippage(slipObj) == IF slipObj = NULL THEN NULL ELSE slipObj.slippage

Row(m, chosen, absMove1h, slipBuy, slipSell) ==
    [score |-> opportunityScore(chosen.spread, m.volume24hr, m.liquidityNum,
                                absMove1h, slipBuy, slipSell),
     marketId |-> m.id, bestBid |-> chosen.bestBid, bestAsk |-> chosen.bestAsk,
     mid |-> chosen.mid, spread |-> chosen.spread, absMove1h |-> absMove1h,
     slipBuy |-> slipBuy, slipSell |-> slipSell, token |-> chosen.token,
     refPrice |-> chosen.refPrice]

\* prev.byToken[prevKey] = { mid, bestBid, bestAsk, t: now }
RecordSnapshot(prev, chosen, t) ==
    [prev EXCEPT !.byToken =
        (chosen.token :> [mid |-> chosen.mid, bestBid |-> chosen.bestBid,
                          bestAsk |-> chosen.bestAsk, t |-> t]) @@ @]

\* The hard filters; a row that passes is pushed and its snapshot recorded.
MarketRow(m, acc, args, t, chosen, absMove1h, slipBuy, slipSell) ==
    IF RGt(chosen.spread, args.maxSpread) THEN acc
    ELSE IF slipBuy = NULL THEN acc
    ELSE [prev |-> RecordSnapshot(acc.prev, chosen, t),
          rows |-> Append(acc.rows, Row(m, chosen, absMove1h, slipBuy, slipSell))]

MarketChosen(m, acc, args, t, chosen) ==
    MarketRow(m, acc, args, t, chosen,
              AbsMove1h(ScanPrevMid(acc.prev, chosen.token), chosen.mid),
              Slippage(slippageForNotional(chosen.book, "buy", args.notional)),
              Slippage(slippageForNotional(chosen.book, "sell", args.notional)))

MarketTokens(m, acc, args, t, tokenCandidates) ==
    IF tokenCandidates = <<>> THEN acc
    ELSE MarketChosen(m, acc, args, t, ClosestToRef(tokenCandidates, NULL))

\* One iteration of the loop over the candidates, on the accumulated
\* [prev, rows].
ScanMarket(m, acc, args, fetch, t) ==
    IF Len(m.outcomes) < 2 \/ Len(m.outcomePrices) < 2 \/ Len(m.clobTokenIds) < 2 THEN acc
    ELSE MarketTokens(m, acc, args, t, TokenCandidates(m, 1, fetch))

RECURSIVE ScanMarkets(_, _, _, _, _)
ScanMarkets(ms, acc, args, fetch, t) ==
    IF ms = <<>> THEN acc
    ELSE ScanMarkets(Tail(ms), ScanMarket(Head(ms), acc, args, fetch, t), args, fetch, t)

\* rows.sort((a, b) => b.score - a.score): a stable sort by descending score.
RECURSIVE InsertRow(_, _)
InsertRow(r, sorted) ==
    IF sorted = <<>> THEN <<r>>
    ELSE IF r.score > Head(sorted).score THEN <<r>> \o sorted
    ELSE <<Head(sorted)>> \o InsertRow(r, Tail(sorted))

RECURSIVE SortRows(_, _)
SortRows(rows, acc) ==
    IF rows = <<>> THEN acc
    ELSE SortRows(Tail(rows), InsertRow(Head(rows), acc))

\* rows.slice(0, args.maxAlerts) of the sorted rows.
ReportTop(rows, args) == Take(SortRows(rows, <<>>), args.maxAlerts)

\* What the catalog and the provider answer to a run of the scanner.
ScanCatalogs ==
    { <<M1>>,
      <<M1, M2>>,
      <<[M1 EXCEPT !.endDate = [ms |-> 0]], M2>> }

ScanCatalogAnswers == {[ok |-> FALSE]} \cup {[ok |-> TRUE, markets |-> c] : c \in ScanCatalogs}

TokenAnswers(token) ==
    CASE token = "a1" -> {bkLo, bkWide, ERR}
      [] token = "b1" -> {bkHi}
      [] token = "a2" -> {bkLo, bkThin}
      [] OTHER -> {bkLo}

RECURSIVE ScanFetchAnswers(_)
ScanFetchAnswers(candidates) ==
    IF candidates = <<>> THEN { <<>> }
    ELSE { (Head(candidates).clobTokenIds[1] :> b1)
             @@ (Head(candidates).clobTokenIds[2] :> b2) @@ rest :
               b1 \in TokenAnswers(Head(candidates).clobTokenIds[1]),
               b2 \in TokenAnswers(Head(candidates).clobTokenIds[2]),
               rest \in ScanFetchAnswers(Tail(candidates)) }

\* readJson(args.snapshotFile, { t: 0, byToken: {} })
ReadSnapshots(file) == IF file # NULL THEN file ELSE [t |-> 0, byToken |-> <<>>]

\* fetchJson throws on the catalog query; main().catch logs and exits with
\* status 1.
ScanOnceThrows ==
    /\ report' = [exit |-> 1, at |-> now]
    /\ UNCHANGED snapshotFile

\* prev.t = now; the snapshots are written and the top rows printed.
ScanOnceWrites(out, fetch) ==
    /\ snapshotFile' = [out.prev EXCEPT !.t = now]
    /\ report' = [exit |-> 0, at |-> now, books |-> fetch,
                  top |-> ReportTop(out.rows, scanArgs)]

ScanOnceWith(candidates, fetch) ==
    ScanOnceWrites(ScanMarkets(candidates,
                               [prev |-> ReadSnapshots(snapshotFile), rows |-> <<>>],
                               scanArgs, fetch, now),
                   fetch)

\* One run of the scanner.
ScanOnce ==
    /\ \E ans \in ScanCatalogAnswers :
         IF ~ans.ok THEN ScanOnceThrows
         ELSE \E fetch \in ScanFetchAnswers(ScanCandidates(ans.markets, scanArgs, now)) :
                ScanOnceWith(ScanCandidates(ans.markets, scanArgs, now), fetch)
    /\ UNCHANGED <<traderVars, stateFile, notifierVars, calc>>

\* Time passes between two runs of the scanner.
Tick ==
    /\ now < MaxTime
    /\ now' = now + 1
    /\ UNCHANGED <<pc, state, res, closing, cyc, stateFile, lastClosedFile, closedFiles,
                   tradeLogs, notifierVars, scannerVars, calc>>

ScannerNext ==
    \/ ScanOnce
    \/ Tick

SpecScanner == Init /\ [][ScannerNext]_vars


\* ------------------------------------------------------------------------
\* Ranking: findOpportunity and the report of the single-shot scanner applied
\* to catalogs of several markets that pass the filters together
\* ------------------------------------------------------------------------

\* --maxAlerts 2
rankArgs == [scanArgs EXCEPT !.maxAlerts = 2]

\* Catalog answers: two or three of the markets M1, M4 (the volume of M1) and
\* M2, in any order.
RankCatalogs ==
    UNION { { c \in [1..n -> {M1, M4, M2}] : \A i, j \in 1..n : i # j => c[i] # c[j] } :
            n \in 2..3 }

FirstTokens(markets) == { markets[i].clobTokenIds[1] : i \in 1..Len(markets) }

SecondTokens(markets) == { markets[i].clobTokenIds[2] : i \in 1..Len(markets) }

\* The books of an earlier scan: bkLo for every token.
EarlierBooks(markets) == [t \in FirstTokens(markets) \cup SecondTokens(markets) |-> bkLo]

\* The books of the scan that is ranked.
RankFetches(markets) ==
    { a @@ [t \in SecondTokens(markets) |-> bkLo] :
        a \in [FirstTokens(markets) -> {bkLo, bkHi, bkTwoLvl}] }

\* The state of the trader after the earlier scan, at time 0.
RankState(markets) ==
    Rescanned(readState(NULL, 0),
              findOpportunity(readState(NULL, 0), cfg, markets, EarlierBooks(markets)), 0)

\* The snapshots the single-shot scanner holds after the earlier scan.
RankSnapshots(markets) ==
    ScanMarkets(ScanCandidates(markets, rankArgs, 0),
                [prev |-> ReadSnapshots(NULL), rows |-> <<>>],
                rankArgs, EarlierBooks(markets), 0).prev

RankInputs(fn) ==
    { [fn |-> fn, done |-> FALSE, markets |-> c, fetch |-> f, scored |-> <<>>, best |-> NULL]
        : c \in RankCatalogs, f \in UNION { RankFetches(m) : m \in RankCatalogs } }

InitRank ==
    /\ Start
    /\ calc \in { i \in RankInputs("findOpportunity") \cup RankInputs("report") :
                    i.fetch \in RankFetches(i.markets) }

\* findOpportunity at time 1: the opportunities pushed and the best returned.
FindBest ==
    /\ calc.fn = "findOpportunity"
    /\ ~calc.done
    /\ calc' = [calc EXCEPT
                  !.done = TRUE,
                  !.scored = EvalMarkets(Candidates(calc.markets, cfg),
                                         RankState(calc.markets), cfg, calc.fetch).scored,
                  !.best = findOpportunity(RankState(calc.markets), cfg, calc.markets,
                                           calc.fetch).best]
    /\ UNCHANGED <<traderVars, stateFile, notifierVars, scannerVars>>

\* The rows of a run of the single-shot scanner at time 1 and the rows it
\* reports.
Report ==
    /\ calc.fn = "report"
    /\ ~calc.done
    /\ calc' = [calc EXCEPT
                  !.done = TRUE,
                  !.scored = ScanMarkets(ScanCandidates(calc.markets, rankArgs, 1),
                                         [prev |-> RankSnapshots(calc.markets), rows |-> <<>>],
                                         rankArgs, calc.fetch, 1).rows,
                  !.best = ReportTop(ScanMarkets(ScanCandidates(calc.markets, rankArgs, 1),
                                         [prev |-> RankSnapshots(calc.markets), rows |-> <<>>],
                                         rankArgs, calc.fetch, 1).rows, rankArgs)]
    /\ UNCHANGED <<traderVars, stateFile, notifierVars, scannerVars>>

RankNext ==
    \/ FindBest
    \/ Report

SpecRank == InitRank /\ [][RankNext]_vars

\* ------------------------------------------------------------------------
\* marketFill applied to books of up to MaxLevels levels
\* ------------------------------------------------------------------------

\* Levels a book lists: three well-formed ones and two malformed ones.
LevelPool ==
    { Lvl(Cents(50), Num(100)), Lvl(Cents(52), Num(200)), Lvl(Cents(50), Num(20)),
      Lvl(NaN, Num(10)), Lvl(Cents(40), Zero) }

Notionals == { Num(-5), Zero, Num(10), Num(60), Num(200) }

\* A level worth 0.000002 USD and a malformed one, with notionals of
\* 0.0000005, 0.0000025 and 0.000004 USD.
MicroPool == { Lvl(Cents(50), R(1, 250000)), Lvl(NaN, Num(10)) }

MicroNotionals == { R(1, 2000000), R(1, 400000), R(1, 250000) }

SeqsUpTo(S, n) == UNION { [1..k -> S] : k \in 0..n }

\* A book that lists `levels` on the side that `side` consumes.
BookOf(levels, side) ==
    [bids |-> IF side = "sell" THEN levels ELSE <<>>,
     asks |-> IF side = "buy" THEN levels ELSE <<>>]

FillInputs(pool, notionals) ==
    { [fn |-> "marketFill", done |-> FALSE, levels |-> l, side |-> s, notional |-> n,
       out |-> NULL, trace |-> <<>>]
        : l \in SeqsUpTo(pool, MaxLevels), s \in {"buy", "sell"}, n \in notionals }

InitFill ==
    /\ Start
    /\ calc \in FillInputs(LevelPool, Notionals) \cup FillInputs(MicroPool, MicroNotionals)

\* marketFill(book, side, notionalUsd)
Fill ==
    /\ calc.fn = "marketFill"
    /\ ~calc.done
    /\ calc' = [calc EXCEPT
                  !.done = TRUE,
                  !.out = marketFill(BookOf(calc.levels, calc.side), calc.side, calc.notional),
                  !.trace = FillTrace(sortedLevels(BookOf(calc.levels, calc.side), calc.side),
                                      FillStart(calc.notional))]
    /\ UNCHANGED <<traderVars, stateFile, notifierVars, scannerVars>>

SpecFill == InitFill /\ [][Fill]_vars

\* ------------------------------------------------------------------------
\* buildPosition applied to entry prices in (0,1] and offsets from 0 to
\* MaxOffset thousandths
\* ------------------------------------------------------------------------

EntryPrices ==
    { R(1, 2000), Mills(1), Mills(20), Mills(21), Mills(400), Mills(979), Mills(980),
      Mills(999), One }

\* An opportunity on token a1 of M1 entered at `price`.
OpportunityAt(price) ==
    [score |-> Zero,
     market |-> M1,
     chosen |-> [tokenId |-> "a1", mid |-> price, prevMid |-> price, move |-> Zero,
                 spread |-> Zero, bid |-> price, ask |-> price,
                 entry |-> [avgPrice |-> price, shares |-> RDiv(cfg.notional, price),
                            notional |-> cfg.notional]]]

InitPosition ==
    /\ Start
    /\ calc \in { [fn |-> "buildPosition", done |-> FALSE, entryPrice |-> e,
                   tp |-> Mills(t), sl |-> Mills(s), out |-> NULL]
                    : e \in EntryPrices, t \in 0..MaxOffset, s \in 0..MaxOffset }

\* buildPosition(op, cfg) at time 1
Build ==
    /\ calc.fn = "buildPosition"
    /\ ~calc.done
    /\ calc' = [calc EXCEPT
                  !.done = TRUE,
                  !.out = buildPosition(OpportunityAt(calc.entryPrice),
                                        [cfg EXCEPT !.tp = calc.tp, !.sl = calc.sl], 1)]
    /\ UNCHANGED <<traderVars, stateFile, notifierVars, scannerVars>>

SpecPosition == InitPosition /\ [][Build]_vars
\* ------------------------------------------------------------------------
\* Properties
\* ------------------------------------------------------------------------

HasEvent(log, type) == \E i \in 1..Len(log) : log[i].type = type

\* The positions that are OPEN: opened and not closed, by their event logs.
OpenIdsOf(logs) ==
    {id \in DOMAIN logs : HasEvent(logs[id], "OPEN") /\ ~HasEvent(logs[id], "CLOSE")}

\* The positions that left the OPEN state.
ClosedIdsOf(logs) == {id \in DOMAIN logs : HasEvent(logs[id], "CLOSE")}

\* A book the provider answered with, with a best bid and a best ask.
TwoSided(book) ==
    /\ book # ERR
    /\ bestBidAsk(book).bestBid # NULL
    /\ bestBidAsk(book).bestAsk # NULL

MidOf(book) == RDiv(RAdd(bestBidAsk(book).bestBid, bestBidAsk(book).bestAsk), Num(2))

SpreadOf(book) == RSub(bestBidAsk(book).bestAsk, bestBidAsk(book).bestBid)

ExitReasons == {"TIME_STOP", "TAKE_PROFIT", "STOP_LOSS"}

\* C1: over the trader loop at most one position is OPEN at any time, and a
\* position is opened only in a cycle that scanned after reading a persisted
\* state with no open position, while no position was OPEN.
C1_AtMostOneOpen ==
    [][ /\ Cardinality(OpenIdsOf(tradeLogs')) <= 1
        /\ (OpenIdsOf(tradeLogs') \ OpenIdsOf(tradeLogs) # {}) =>
              /\ OpenIdsOf(tradeLogs) = {}
              /\ cyc.scan
              /\ stateFile.openPosition = NULL
              /\ state'.openPosition.id \in OpenIdsOf(tradeLogs') ]_vars

\* A second position is open after the first one was closed.
C1_Witness ==
    /\ Cardinality(OpenIdsOf(tradeLogs)) = 1
    /\ ClosedIdsOf(tradeLogs) # {}
    /\ stateFile.openPosition # NULL

C2Rule(p, decision, t) ==
    IF t - p.openedAt >= p.exits.maxHoldMs
    THEN decision # NULL /\ decision.reason = "TIME_STOP"
    ELSE decision = NULL \/ decision.reason \in {"TAKE_PROFIT", "STOP_LOSS"}

\* C2: for every open position and every mark, shouldExit answers TIME_STOP
\* when the position's age is at least maxHoldMs, whatever the bid, and
\* answers TAKE_PROFIT or STOP_LOSS only at an age below maxHoldMs; a trade
\* closes with TIME_STOP exactly when it closes at such an age.
C2_TimeStopFirst ==
    /\ pc = "monitor" =>
         \A book \in {b \in MonitorAnswers : TwoSided(b)} :
            C2Rule(state.openPosition,
                   shouldExit(state.openPosition, MarkOf(bestBidAsk(book), now), now),
                   now)
    /\ closing # NULL =>
         (closing.durationMs >= closing.exits.maxHoldMs <=> closing.exitReason = "TIME_STOP")

\* A trade closes by TIME_STOP on a tick whose bid has reached the take-profit price.
C2_Witness ==
    /\ closing # NULL
    /\ closing.exitReason = "TIME_STOP"
    /\ RGe(closing.lastMark.bid, closing.exits.takeProfitPrice)

\* The reason recorded in a summary is the rule that fired.
C3Recorded(c) ==
    /\ c.exitReason \in ExitReasons
    /\ c.exitReason = "TIME_STOP" => c.durationMs >= c.exits.maxHoldMs
    /\ c.exitReason = "TAKE_PROFIT" =>
         c.durationMs < c.exits.maxHoldMs /\ RGe(c.lastMark.bid, c.exits.takeProfitPrice)
    /\ c.exitReason = "STOP_LOSS" =>
         /\ c.durationMs < c.exits.maxHoldMs
         /\ RLt(c.lastMark.bid, c.exits.takeProfitPrice)
         /\ RLe(c.lastMark.bid, c.exits.stopLossPrice)

\* C3: on a monitoring tick with a two-sided book before maxHoldMs the
\* position closes with TAKE_PROFIT iff bid >= takeProfitPrice, with
\* STOP_LOSS iff bid < takeProfitPrice and bid <= stopLossPrice, and stays
\* OPEN otherwise; the exitReason of every closed trade is one of the three
\* reasons and the rule that fired.
C3_ExitRules ==
    [][ /\ ( /\ pc = "monitor"
             /\ TwoSided(cyc'.books[state.openPosition.tokenId])
             /\ now - state.openPosition.openedAt < state.openPosition.exits.maxHoldMs ) =>
              /\ RGe(bestBidAsk(cyc'.books[state.openPosition.tokenId]).bestBid,
                     state.openPosition.exits.takeProfitPrice)
                   <=> (pc' = "summary" /\ closing'.exitReason = "TAKE_PROFIT")
              /\ ( /\ RLt(bestBidAsk(cyc'.books[state.openPosition.tokenId]).bestBid,
                          state.openPosition.exits.takeProfitPrice)
                   /\ RLe(bestBidAsk(cyc'.books[state.openPosition.tokenId]).bestBid,
                          state.openPosition.exits.stopLossPrice) )
                   <=> (pc' = "summary" /\ closing'.exitReason = "STOP_LOSS")
              /\ pc' # "summary" =>
                   /\ pc' = "sleep"
                   /\ closing' = NULL
                   /\ stateFile'.openPosition # NULL
                   /\ stateFile'.openPosition.id = state.openPosition.id
                   /\ stateFile'.openPosition.status = "OPEN"
                   /\ state.openPosition.id \in OpenIdsOf(tradeLogs')
        /\ closing' # NULL => C3Recorded(closing')
        /\ \A id \in DOMAIN closedFiles' : C3Recorded(closedFiles'[id]) ]_vars

\* One trade was closed by TAKE_PROFIT and another closes by STOP_LOSS.
C3_Witness ==
    /\ closing # NULL
    /\ closing.exitReason = "STOP_LOSS"
    /\ \E id \in DOMAIN closedFiles : closedFiles[id].exitReason = "TAKE_PROFIT"

\* C4: on every monitoring tick at which the open position's age is at least
\* maxHoldMs the position is closed with TIME_STOP on that tick, whatever
\* the book query answers.
C4_TimeStopEveryTick ==
    [][ ( /\ pc = "monitor"
          /\ now - state.openPosition.openedAt >= state.openPosition.exits.maxHoldMs ) =>
            (pc' = "summary" /\ closing'.exitReason = "TIME_STOP") ]_vars

\* The MARK events of a log are later than its OPEN event.
MarkedLater(log) ==
    \A i \in 1..Len(log) : log[i].type = "MARK" => log[i].t > log[1].t

\* C5: a cycle scans exactly when the state it read holds no open position
\* and monitors exactly when it holds one; no cycle both scans and monitors,
\* a monitoring cycle opens nothing, and a position is first marked in a
\* cycle later than the one that opened it.
C5_ScanXorMonitor ==
    /\ ~(cyc.scan /\ cyc.monitor)
    /\ ~(cyc.opened /\ cyc.monitor)
    /\ cyc.opened => cyc.scan
    /\ pc = "scan" =>
         state.openPosition = NULL /\ (stateFile # NULL => stateFile.openPosition = NULL)
    /\ pc = "monitor" => state.openPosition # NULL /\ ~cyc.scan
    /\ pc = "open" => cyc.scan /\ ~cyc.monitor
    /\ \A id \in DOMAIN tradeLogs : MarkedLater(tradeLogs[id])

\* A cycle monitored a position opened in an earlier cycle and marked it.
C5_Witness ==
    /\ cyc.monitor
    /\ pc = "sleep"
    /\ \E id \in DOMAIN tradeLogs : HasEvent(tradeLogs[id], "MARK")

\* C6: a failure of the catalog query or of a book query never ends the
\* process: the loop goes on to its next cycle.
C6_FailureNeverAborts == pc # "exited"

\* C7: after a run of the single-shot scanner every token whose book was
\* fetched with a best bid and a best ask has a snapshot entry holding the
\* run's mid and time.
C7_ObservedTokensSnapshotted ==
    (report # NULL /\ report.exit = 0) =>
        \A tok \in DOMAIN report.books :
            TwoSided(report.books[tok]) =>
                /\ tok \in DOMAIN snapshotFile.byToken
                /\ snapshotFile.byToken[tok].t = report.at
                /\ snapshotFile.byToken[tok].mid = MidOf(report.books[tok])

\* C8: no trade id is notified twice, and a closed trade whose pointer has
\* been replaced by a later one has been notified.
C8_ExactlyOnce ==
    /\ \A i, j \in 1..Len(notes) : notes[i] = notes[j] => i = j
    /\ \A id \in DOMAIN closedFiles :
         lastClosedFile.tradeId # id => \E i \in 1..Len(notes) : notes[i] = id

\* C9: a summary is written once per position id, when the position closes,
\* and never changed or removed afterwards; the summaries are those of the
\* positions that left the OPEN state (the one being closed has its
\* summary pending), and no OPEN position has one.
C9_SummaryWrittenOnce ==
    [][ /\ \A id \in DOMAIN closedFiles :
             id \in DOMAIN closedFiles' /\ closedFiles'[id] = closedFiles[id]
        /\ closedFiles' # closedFiles =>
             /\ pc = "summary"
             /\ closing.id \notin DOMAIN closedFiles
             /\ DOMAIN closedFiles' = DOMAIN closedFiles \cup {closing.id}
             /\ closedFiles'[closing.id] = closing
        /\ ClosedIdsOf(tradeLogs') =
             DOMAIN closedFiles' \cup (IF pc' = "summary" THEN {closing'.id} ELSE {})
        /\ OpenIdsOf(tradeLogs') \cap DOMAIN closedFiles' = {} ]_vars

\* Two positions were closed and each has its summary.
C9_Witness ==
    /\ Cardinality(DOMAIN closedFiles) = 2
    /\ ClosedIdsOf(tradeLogs) = DOMAIN closedFiles

\* The filters of the claim on the order book of the token chosen, with the
\* snapshots as they were before the cycle.
C10Promoted(best, book, st) ==
    /\ TwoSided(book)
    /\ RLe(SpreadOf(book), cfg.maxSpread)
    /\ RGe(RAbs(RSub(MidOf(book), PrevMid(st, best.chosen.tokenId, MidOf(book)))),
           cfg.minMove)
    /\ marketFill(book, "buy", cfg.notional) # NULL
    /\ best.chosen.entry = marketFill(book, "buy", cfg.notional)

\* C10: an opportunity a scan promotes has, on the book of its chosen token
\* in that cycle, spread <= maxSpread, |mid - last snapshot's mid| >= minMove
\* and a buy fill at the configured notional; the position built from it
\* has that fill's avgPrice and shares as its entry.
C10_PromotedPassedFilters ==
    [][ /\ (pc = "scan" /\ pc' = "open") =>
              C10Promoted(res', cyc'.books[res'.chosen.tokenId], state)
        /\ (pc = "open" /\ pc' # "open") =>
              /\ state'.openPosition.entry.avgPrice = res.chosen.entry.avgPrice
              /\ state'.openPosition.entry.shares = res.chosen.entry.shares
              /\ stateFile'.openPosition = state'.openPosition
              /\ res.chosen.entry =
                   marketFill(cyc.books[res.chosen.tokenId], "buy", cfg.notional) ]_vars

\* A position was opened on a fill that walked more than one ask level.
C10_Witness ==
    /\ cyc.opened
    /\ state # NULL
    /\ state.openPosition # NULL
    /\ state.openPosition.entry.avgPrice # state.openPosition.entry.bookAsk

\* The scan repeated on the state st the first scan left: every token it
\* observes has not moved and nothing is promoted.
C11Second(st, r) ==
    /\ r.best = NULL
    /\ \A i \in 1..Len(r.snapshotUpdates) :
         PrevMid(st, r.snapshotUpdates[i].tokenId, r.snapshotUpdates[i].mid)
            = r.snapshotUpdates[i].mid

C11Rescan(st, markets, fetch) ==
    C11Second(st, findOpportunity(st, cfg, markets, fetch))

\* C11: whenever the loop is about to scan, for every catalog answer and
\* every answer of the book queries: once the scan has run and its snapshots
\* are recorded, the same scan on the same markets and books finds an
\* absolute move of 0 for every token and promotes nothing.
C11_RescanFindsNothing ==
    pc = "scan" =>
        \A ans \in {a \in CatalogAnswers : a.ok} :
            \A fetch \in FetchAnswers(Candidates(ans.markets, cfg)) :
                C11Rescan(Rescanned(state,
                                    findOpportunity(state, cfg, ans.markets, fetch), now),
                          ans.markets, fetch)

\* The loop is about to scan with snapshots recorded by an earlier cycle, and
\* there are books on which the scan promotes an opportunity.
C11_Witness ==
    /\ pc = "scan"
    /\ DOMAIN state.snapshots.byToken # {}
    /\ \E ans \in {a \in CatalogAnswers : a.ok} :
          \E fetch \in FetchAnswers(Candidates(ans.markets, cfg)) :
             findOpportunity(state, cfg, ans.markets, fetch).best # NULL


\* ---------------------------------------------------------------------------
\* C12: no order-book query is issued for a market that fails an eligibility
\* predicate: in every scan cycle of the trader each order-book fetch is for a
\* token of a market of the catalog answer that is not closed, has its order
\* book enabled, does not refuse orders, has 24h volume and liquidity at or
\* above the floors, has at least two outcome labels, two reference prices and
\* two token ids, and ends after the time of the scan.
EligibleBySpec(m, t) ==
    /\ m.closed = FALSE
    /\ m.enableOrderBook
    /\ m.acceptingOrders # FALSE
    /\ m.volume24hr >= cfg.minVolume24h
    /\ m.liquidityNum >= cfg.minLiquidity
    /\ Len(m.outcomes) >= 2
    /\ Len(m.outcomePrices) >= 2
    /\ Len(m.clobTokenIds) >= 2
    /\ m.endDate # NaN
    /\ m.endDate.ms > t

TokenOf(m, token) == \E k \in 1..Len(m.clobTokenIds) : m.clobTokenIds[k] = token

C12_QueriesOnlyEligible ==
    (cyc.scan /\ ~cyc.monitor) =>
        \A i \in 1..Len(cyc.queried) :
            \E j \in 1..Len(cyc.markets) :
                /\ TokenOf(cyc.markets[j], cyc.queried[i])
                /\ EligibleBySpec(cyc.markets[j], now)

\* ---------------------------------------------------------------------------
\* C13: the opportunity findOpportunity returns as best has the largest score
\* among the opportunities that survived the filters of the cycle, and among
\* those of equal score it is the one of the market earliest in the catalog;
\* the single-shot scanner reports its rows by descending score, rows of
\* equal score in catalog order, cut to the first maxAlerts.
CatalogPos(markets, id) == CHOOSE i \in 1..Len(markets) : markets[i].id = id

\* r ranks before s: a larger score, or the same score and earlier in the
\* catalog.
RanksBefore(markets, rScore, rId, sScore, sId) ==
    \/ RGt(rScore, sScore)
    \/ rScore = sScore /\ CatalogPos(markets, rId) < CatalogPos(markets, sId)

C13Best ==
    IF calc.scored = <<>> THEN calc.best = NULL
    ELSE /\ \E i \in 1..Len(calc.scored) : calc.scored[i] = calc.best
         /\ \A i \in 1..Len(calc.scored) :
               \/ calc.scored[i] = calc.best
               \/ RanksBefore(calc.markets, calc.best.score, calc.best.market.id,
                              calc.scored[i].score, calc.scored[i].market.id)

C13Reported ==
    /\ Len(calc.best) = Min(rankArgs.maxAlerts, Len(calc.scored))
    /\ \A i \in 1..Len(calc.best) : \E j \in 1..Len(calc.scored) : calc.scored[j] = calc.best[i]
    /\ \A i \in 1..Len(calc.best) : \A j \in 1..Len(calc.best) :
           i < j => RanksBefore(calc.markets, Num(calc.best[i].score), calc.best[i].marketId,
                                Num(calc.best[j].score), calc.best[j].marketId)
    /\ \A i \in 1..Len(calc.best) : \A j \in 1..Len(calc.scored) :
           \/ \E k \in 1..Len(calc.best) : calc.best[k] = calc.scored[j]
           \/ RanksBefore(calc.markets, Num(calc.best[i].score), calc.best[i].marketId,
                          Num(calc.scored[j].score), calc.scored[j].marketId)

C13_Ranking ==
    /\ (calc.fn = "findOpportunity" /\ calc.done) => C13Best
    /\ (calc.fn = "report" /\ calc.done) => C13Reported

\* Two opportunities of the largest score in one cycle.
C13_Witness ==
    /\ calc.fn = "findOpportunity"
    /\ calc.done
    /\ \E i \in 1..Len(calc.scored) : \E j \in 1..Len(calc.scored) :
          /\ i < j
          /\ calc.scored[i].score = calc.best.score
          /\ calc.scored[j].score = calc.best.score

\* ---------------------------------------------------------------------------
\* C14: the score of an opportunity lies in [0,100]: the score findOpportunity
\* gives the opportunity it returns is at least 0 and at most 100.
C14_ScoreInRange ==
    res # NULL => (RGe(res.score, Zero) /\ RLe(res.score, Num(100)))

\* ---------------------------------------------------------------------------
\* C15: marketFill returns a result exactly when the notional is positive and
\* the valid levels of the side it consumes (finite, strictly positive price
\* and size) are worth at least the notional minus 1e-6; the notional of a
\* result equals the notional asked up to 1e-6 and its shares are positive;
\* malformed levels contribute nothing.
RECURSIVE ValueOf(_)
ValueOf(levels) ==
    IF levels = <<>> THEN Zero
    ELSE IF ValidLevel(Head(levels))
         THEN RAdd(RMul(Head(levels).price, Head(levels).size), ValueOf(Tail(levels)))
         ELSE ValueOf(Tail(levels))

DeepEnough ==
    /\ RGt(calc.notional, Zero)
    /\ AtMostOneIn(RSub(calc.notional, ValueOf(calc.levels)), DepthEpsInv)

FilledAsAsked ==
    calc.out # NULL =>
        /\ AtMostOneIn(RAbs(RSub(calc.notional, calc.out.notional)), DepthEpsInv)
        /\ RGt(calc.out.shares, Zero)

MalformedIgnored ==
    marketFill(BookOf(SelectSeq(calc.levels, ValidLevel), calc.side), calc.side,
               calc.notional) = calc.out

\* As stated: depth alone decides.
C15_ResultIffDepth ==
    (calc.fn = "marketFill" /\ calc.done) =>
        /\ (calc.out # NULL) <=> DeepEnough
        /\ FilledAsAsked
        /\ MalformedIgnored

\* As the code has it: a result needs, besides, a valid level to take from.
C15_ResultIffDepthTaken ==
    (calc.fn = "marketFill" /\ calc.done) =>
        /\ (calc.out # NULL) <=>
              (DeepEnough /\ \E i \in 1..Len(calc.levels) : ValidLevel(calc.levels[i]))
        /\ FilledAsAsked
        /\ MalformedIgnored

\* A fill that stops short of the notional by no more than 1e-6, on a book
\* that lists a malformed level.
C15_Witness ==
    /\ calc.fn = "marketFill"
    /\ calc.done
    /\ calc.out # NULL
    /\ RLt(calc.out.notional, calc.notional)
    /\ \E i \in 1..Len(calc.levels) : ~ValidLevel(calc.levels[i])

\* ---------------------------------------------------------------------------
\* C16: marketFill consumes the levels best price first, whatever the order
\* in which the book lists them: every permutation of the levels gives the
\* same result, and a level is taken from only after every valid level with
\* a strictly better price has been consumed in full.
Permuted(levels, p) == [i \in 1..Len(levels) |-> levels[p[i]]]

SameForEveryOrder ==
    \A p \in Permutations(1..Len(calc.levels)) :
        marketFill(BookOf(Permuted(calc.levels, p), calc.side), calc.side, calc.notional)
            = calc.out

BetterPrice(p, q, side) == IF side = "buy" THEN RLt(p, q) ELSE RGt(p, q)

\* The valid levels of the book with a better price than p, and the
\* iterations before the i-th that consumed such a level in full.
BetterListed(p) ==
    { k \in 1..Len(calc.levels) :
        ValidLevel(calc.levels[k]) /\ BetterPrice(calc.levels[k].price, p, calc.side) }

BetterConsumed(i) ==
    { j \in 1..(i - 1) :
        /\ BetterPrice(calc.trace[j].price, calc.trace[i].price, calc.side)
        /\ calc.trace[j].takeUsd = RMul(calc.trace[j].price, calc.trace[j].size) }

BestPriceFirst ==
    \A i \in 1..Len(calc.trace) :
        RGt(calc.trace[i].takeUsd, Zero) =>
            Cardinality(BetterConsumed(i)) = Cardinality(BetterListed(calc.trace[i].price))

C16_BestPriceFirst ==
    (calc.fn = "marketFill" /\ calc.done) => (SameForEveryOrder /\ BestPriceFirst)

\* A fill over two levels that the book lists worse price first.
C16_Witness ==
    /\ calc.fn = "marketFill"
    /\ calc.done
    /\ calc.out # NULL
    /\ Len(calc.trace) >= 2
    /\ RGt(calc.trace[2].takeUsd, Zero)
    /\ Len(calc.levels) >= 2
    /\ ValidLevel(calc.levels[1])
    /\ ValidLevel(calc.levels[2])
    /\ BetterPrice(calc.levels[2].price, calc.levels[1].price, calc.side)

\* ---------------------------------------------------------------------------
\* C17: the avgPrice of a result of marketFill lies between the best and the
\* worst price among the levels it consumed (so in (0,1] for prices in (0,1])
\* and its shares are positive; asks (0.50,100), (0.52,200) with notional 60
\* consume 100 shares at 0.50 and about 19.23 shares at 0.52, for about
\* 119.23 shares.
Near(x, y, tol) == RLe(RAbs(RSub(x, y)), tol)

AvgWithinConsumed ==
    calc.out # NULL =>
        /\ RGt(calc.out.shares, Zero)
        /\ \E i \in 1..Len(calc.trace) :
              RGt(calc.trace[i].takeUsd, Zero) /\ RLe(calc.trace[i].price, calc.out.avgPrice)
        /\ \E i \in 1..Len(calc.trace) :
              RGt(calc.trace[i].takeUsd, Zero) /\ RGe(calc.trace[i].price, calc.out.avgPrice)
        /\ RGt(calc.out.avgPrice, Zero)
        /\ RLe(calc.out.avgPrice, One)

IsExample ==
    /\ calc.fn = "marketFill"
    /\ calc.done
    /\ calc.levels = <<Lvl(Cents(50), Num(100)), Lvl(Cents(52), Num(200))>>
    /\ calc.side = "buy"
    /\ calc.notional = Num(60)

ExampleConsumed ==
    /\ calc.out # NULL
    /\ Len(calc.trace) = 2
    /\ calc.trace[1].price = Cents(50)
    /\ RDiv(calc.trace[1].takeUsd, calc.trace[1].price) = Num(100)
    /\ calc.trace[2].price = Cents(52)
    /\ Near(RDiv(calc.trace[2].takeUsd, calc.trace[2].price), Cents(1923), Cents(1))
    /\ Near(calc.out.shares, Cents(11923), Cents(1))

\* As stated: the example's avgPrice is about 0.5077.
C17_AvgPriceBounds ==
    /\ (calc.fn = "marketFill" /\ calc.done) => AvgWithinConsumed
    /\ IsExample => (ExampleConsumed /\ Near(calc.out.avgPrice, R(5077, 10000), R(5, 10000)))

\* As the code has it: avgPrice = cost / shares = 60 / 119.23, about 0.5032.
C17_AvgPriceBoundsExample ==
    /\ (calc.fn = "marketFill" /\ calc.done) => AvgWithinConsumed
    /\ IsExample => (ExampleConsumed /\ Near(calc.out.avgPrice, R(5032, 10000), R(5, 10000)))

\* The fill of the example.
C17_Witness ==
    /\ IsExample
    /\ calc.out # NULL
    /\ RLt(Cents(50), calc.out.avgPrice)
    /\ RLt(calc.out.avgPrice, Cents(52))

\* ---------------------------------------------------------------------------
\* C18: on close the exit price is the avgPrice of the sell-side fill of
\* min(configured notional, entryAvg * shares) on the book of the closing
\* tick, or the best bid of that tick when that fill finds too little depth;
\* pnl = (exitAvg - entryAvg) * shares with the entryAvg and shares recorded
\* at open; a position due to exit on a two-sided book closes whatever the
\* depth of the bids.
ExitPrice(fill, book) == IF fill # NULL THEN fill.avgPrice ELSE bestBidAsk(book).bestBid

ExitPriceOn(book, entry) ==
    ExitPrice(marketFill(book, "sell", RMin(cfg.notional, RMul(entry.avgPrice, entry.shares))),
              book)

ExitDue(p, book, t) ==
    \/ t - p.openedAt >= p.exits.maxHoldMs
    \/ RGe(bestBidAsk(book).bestBid, p.exits.takeProfitPrice)
    \/ RLe(bestBidAsk(book).bestBid, p.exits.stopLossPrice)

C18_ExitPriceAndPnl ==
    [][ pc = "monitor" =>
          /\ pc' = "summary" =>
               /\ closing'.exitAvg = ExitPriceOn(cyc'.books[state.openPosition.tokenId],
                                                 stateFile.openPosition.entry)
               /\ closing'.entryAvg = stateFile.openPosition.entry.avgPrice
               /\ closing'.shares = stateFile.openPosition.entry.shares
               /\ closing'.pnl = RMul(RSub(closing'.exitAvg,
                                           stateFile.openPosition.entry.avgPrice),
                                      stateFile.openPosition.entry.shares)
          /\ ( /\ TwoSided(cyc'.books[state.openPosition.tokenId])
               /\ ExitDue(state.openPosition, cyc'.books[state.openPosition.tokenId], now) )
               => (pc' = "summary" /\ closing' # NULL) ]_vars

\* A close on a book whose bids are worth less than the notional to sell: the
\* exit price is the best bid.
C18_Witness ==
    /\ pc = "summary"
    /\ closing # NULL
    /\ marketFill(cyc.books[closing.tokenId], "sell",
                  RMin(cfg.notional, RMul(closing.entryAvg, closing.shares))) = NULL
    /\ closing.exitAvg = bestBidAsk(cyc.books[closing.tokenId]).bestBid
    /\ closing.pnl # Zero

\* ---------------------------------------------------------------------------
\* C19: a position built by buildPosition has takeProfitPrice =
\* min(0.999, entryPrice + tpOffset) and stopLossPrice =
\* max(0.001, entryPrice - slOffset), and both thresholds lie in
\* [0.001, 0.999]; entry 0.40 with offsets 0.02 gives 0.42 and 0.38.
Built == calc.fn = "buildPosition" /\ calc.done

ThresholdsAsGiven ==
    /\ calc.out.exits.takeProfitPrice = RMin(Mills(999), RAdd(calc.entryPrice, calc.tp))
    /\ calc.out.exits.stopLossPrice = RMax(Mills(1), RSub(calc.entryPrice, calc.sl))
    /\ (calc.entryPrice = Cents(40) /\ calc.tp = Cents(2) /\ calc.sl = Cents(2)) =>
          /\ calc.out.exits.takeProfitPrice = Cents(42)
          /\ calc.out.exits.stopLossPrice = Cents(38)

InPriceRange(x) == RGe(x, Mills(1)) /\ RLe(x, Mills(999))

\* As stated: for every entry price in (0,1] and all non-negative offsets.
C19_ExitThresholds ==
    Built =>
        /\ ThresholdsAsGiven
        /\ InPriceRange(calc.out.exits.takeProfitPrice)
        /\ InPriceRange(calc.out.exits.stopLossPrice)

\* As the code has it: the take profit is at most 0.999 and the stop loss at
\* least 0.001 always; both lie in [0.001, 0.999] once the offsets are at
\* least 0.001.
C19_ExitThresholdsOffset ==
    Built =>
        /\ ThresholdsAsGiven
        /\ RLe(calc.out.exits.takeProfitPrice, Mills(999))
        /\ RGe(calc.out.exits.stopLossPrice, Mills(1))
        /\ (RGe(calc.tp, Mills(1)) /\ RGe(calc.sl, Mills(1))) =>
              /\ InPriceRange(calc.out.exits.takeProfitPrice)
              /\ InPriceRange(calc.out.exits.stopLossPrice)

\* A position entered at 0.999 with the default offsets: the take profit is
\* held at 0.999.
C19_Witness ==
    /\ Built
    /\ calc.entryPrice = Mills(999)
    /\ calc.tp = Cents(2)
    /\ calc.sl = Cents(2)
    /\ calc.out.exits.takeProfitPrice = Mills(999)
    /\ calc.out.exits.stopLossPrice = Mills(979)

\* ---------------------------------------------------------------------------
\* C20: every monitoring tick of an open position, whether or not the
\* position closes on it, overwrites the snapshot entry of the position's
\* token with the mid, bid and ask of the tick and persists it: at the end of
\* the tick the state file holds, for that token, an entry taken at this tick.
MonitoredToken == cyc.queried[1]

TickSnapshot(book, t) ==
    [mid |-> MidOf(book), bid |-> bestBidAsk(book).bestBid,
     ask |-> bestBidAsk(book).bestAsk, t |-> t]

EndOfMonitoringTick == pc = "sleep" /\ cyc.monitor

InOrder(log) ==
    /\ Len(log) >= 1
    /\ log[1].type = "OPEN"
    /\ \A i \in 2..Len(log) :
          \/ log[i].type = "MARK"
          \/ log[i].type = "CLOSE" /\ i = Len(log)
    /\ \A i \in 2..Len(log) : log[i].t >= log[i - 1].t

LogsInOrder == \A id \in DOMAIN tradeLogs : InOrder(tradeLogs[id])

PersistedOpenIds ==
    IF stateFile # NULL /\ stateFile.openPosition # NULL
    THEN {stateFile.openPosition.id}
    ELSE {}

CycleBoundary == pc \in {"read", "sleep"}

SlotMatchesLogs == CycleBoundary => PersistedOpenIds = OpenIdsOf(tradeLogs)

AppendOnly ==
    \A id \in DOMAIN tradeLogs :
        /\ id \in DOMAIN tradeLogs'
        /\ Len(tradeLogs'[id]) >= Len(tradeLogs[id])
        /\ SubSeq(tradeLogs'[id], 1, Len(tradeLogs[id])) = tradeLogs[id]
        /\ HasEvent(tradeLogs[id], "CLOSE") => tradeLogs'[id] = tradeLogs[id]

C21_LogOrdering == [][AppendOnly /\ LogsInOrder' /\ SlotMatchesLogs']_vars

\* A position opened, marked on a tick that kept it open, and closed on a
\* later tick.
C21_Witness ==
    /\ CycleBoundary
    /\ PersistedOpenIds = {}
    /\ \E id \in DOMAIN tradeLogs :
          /\ Len(tradeLogs[id]) >= 4
          /\ tradeLogs[id][Len(tradeLogs[id])].type = "CLOSE"

\* ---------------------------------------------------------------------------
\* C22: a monitoring tick that does not close the position changes, in the
\* persisted state, only the position's lastMark, the snapshot entry of the
\* position's token and the snapshot time; the id, openedAt, market and token
\* references, notional, entry fill and exit thresholds of the position are
\* the same from open until close, and lastClosedId, lastScanAt and the
\* snapshots of the other tokens stay as they were.
FixedOf(p) ==
    [id |-> p.id, openedAt |-> p.openedAt, marketId |-> p.marketId, tokenId |-> p.tokenId,
     notional |-> p.notional, entry |-> p.entry, exits |-> p.exits]

\* The state file after the step differs from the one before it at most in
\* the three places.
OnlyMarked(token) ==
    stateFile' = [stateFile EXCEPT
                    !.openPosition.lastMark = stateFile'.openPosition.lastMark,
                    !.snapshots.byToken[token] = stateFile'.snapshots.byToken[token],
                    !.snapshots.t = stateFile'.snapshots.t]

ClosedAsOpened(c, p) ==
    /\ c.id = p.id
    /\ c.openedAt = p.openedAt
    /\ c.marketId = p.marketId
    /\ c.tokenId = p.tokenId
    /\ c.notional = p.notional
    /\ c.entryAvg = p.entry.avgPrice
    /\ c.shares = p.entry.shares
    /\ c.exits = p.exits

C22_MonitorFrame ==
    [][ /\ (pc = "monitor" /\ pc' # "summary") =>
              /\ stateFile'.openPosition # NULL
              /\ OnlyMarked(stateFile.openPosition.tokenId)
              /\ stateFile'.lastClosedId = stateFile.lastClosedId
              /\ stateFile'.lastScanAt = stateFile.lastScanAt
        /\ (stateFile # NULL /\ stateFile.openPosition # NULL /\ stateFile'.openPosition # NULL) =>
              FixedOf(stateFile'.openPosition) = FixedOf(stateFile.openPosition)
        /\ (pc = "monitor" /\ pc' = "summary") =>
              ClosedAsOpened(closing', stateFile.openPosition) ]_vars

\* The end of a tick that marked the position and kept it open, with the
\* snapshot of another token in the state.
C22_Witness ==
    /\ pc = "sleep"
    /\ cyc.monitor
    /\ stateFile.openPosition # NULL
    /\ stateFile.openPosition.lastMark.t = now
    /\ stateFile.openPosition.openedAt < now
    /\ stateFile.snapshots.byToken[stateFile.openPosition.tokenId].t = now
    /\ \E tok \in DOMAIN stateFile.snapshots.byToken :
          stateFile.snapshots.byToken[tok].t < now

\* ---------------------------------------------------------------------------
\* C23: a run of the notifier interleaved with the trader loop alters only
\* notifierLastSeen in the state file: its write never restores a closed
\* position into openPosition and never removes a position the trader has
\* opened, and the writes of the trader never lose notifierLastSeen.
SlotOf(file) == IF file = NULL THEN NULL ELSE file.openPosition

\* The write of the notifier leaves the position slot as it is in the file.
NotifierKeepsSlot == (npc = "write" /\ npc' = "idle") => SlotOf(stateFile') = SlotOf(stateFile)

\* The write of the notifier changes no field but notifierLastSeen.
NotifierAltersOnlySeen ==
    (npc = "write" /\ npc' = "idle") =>
        stateFile' = ("notifierLastSeen" :> stateFile'.notifierLastSeen) @@ stateFile

\* A write of the trader keeps the notifierLastSeen that is in the file.
TraderKeepsSeen ==
    (npc' = npc /\ stateFile # NULL /\ "notifierLastSeen" \in DOMAIN stateFile) =>
        /\ "notifierLastSeen" \in DOMAIN stateFile'
        /\ stateFile'.notifierLastSeen = stateFile.notifierLastSeen

C23_NotifierIsolated ==
    [][NotifierKeepsSlot /\ NotifierAltersOnlySeen /\ TraderKeepsSeen]_vars

\* ---------------------------------------------------------------------------
\* C24: the first observation of a token is never a move. A token without a
\* snapshot entry gets prevMid = its mid and so a move of 0; a scan that
\* starts from empty snapshots (the first scan of a run among them) promotes
\* nothing, minMove being positive; and a scan promotes a market only on a
\* token that has a snapshot from an earlier cycle and whose mid moved by at
\* least minMove from it.
NoSnapshot(st, tokenId) == tokenId \notin DOMAIN st.snapshots.byToken

FirstSeenNoMove(st, tokenId, book) ==
    (TwoSided(book) /\ NoSnapshot(st, tokenId)) =>
        /\ Token(tokenId, book, bestBidAsk(book), st).prevMid = MidOf(book)
        /\ AbsMove(Token(tokenId, book, bestBidAsk(book), st)) = Zero

MovedSinceSnapshot(st, chosen) ==
    /\ ~NoSnapshot(st, chosen.tokenId)
    /\ st.snapshots.byToken[chosen.tokenId].t < now
    /\ chosen.prevMid = st.snapshots.byToken[chosen.tokenId].mid
    /\ RGe(RAbs(RSub(chosen.mid, st.snapshots.byToken[chosen.tokenId].mid)), cfg.minMove)

C24_FirstObservationNoMove ==
    [][ (pc = "scan" /\ pc' # "exited") =>
            /\ RGt(cfg.minMove, Zero)
            /\ \A tokenId \in DOMAIN cyc'.books :
                  FirstSeenNoMove(state, tokenId, cyc'.books[tokenId])
            /\ (DOMAIN state.snapshots.byToken = {}) => (pc' = "sleep" /\ res' = NULL)
            /\ (pc' = "open") => MovedSinceSnapshot(state, res'.chosen) ]_vars

\* A scan of a later cycle has promoted a market on a token whose mid moved
\* from the snapshot an earlier cycle took of it.
C24_Witness ==
    /\ pc = "open"
    /\ res # NULL
    /\ now >= 1
    /\ ~NoSnapshot(state, res.chosen.tokenId)
    /\ res.chosen.prevMid # res.chosen.mid
    /\ RGe(RAbs(res.chosen.move), cfg.minMove)
=============================================================================
